---- MODULE Spec2Model ----
(***************************************************************************)
(* Scroll-driven box tour (main.js and its matchMedia variant).            *)
(*                                                                         *)
(* Numbers are exact rationals <<numerator, denominator>> in lowest terms  *)
(* with a positive denominator, so that equal values are equal tuples.     *)
(* Angles are rational multiples of Math.PI.  A timeline position p is     *)
(* kept as the whole number 2 * Res * p of half-sample ticks, the playhead *)
(* is sampled Res times per timeline unit.                                 *)
(***************************************************************************)
EXTENDS Integers, Sequences, FiniteSets, TLC

\* ------------------------------------------------------------ bounds
\* playhead samples per timeline unit
Res == 3
\* frame callbacks (animate) followed in one behaviour
MaxFrames == 1
\* wall-clock ticks per second followed for the intro tween
TicksPerSecond == 2
\* scroll steps the page can travel after "#content" bottom meets the
\* viewport bottom
Overscroll == 2

\* ------------------------------------------------------------ rationals
Abs(n) == IF n < 0 THEN -n ELSE n

RECURSIVE GCD(_, _)
GCD(a, b) == IF b = 0 THEN a ELSE GCD(b, a % b)

Q(n, d) ==
    LET g == GCD(Abs(n), Abs(d))
        s == IF d < 0 THEN -1 ELSE 1
    IN  <<(s * n) \div g, (s * d) \div g>>

Q0 == Q(0, 1)
Q1 == Q(1, 1)

QAdd(a, b) ==
    LET l == (a[2] \div GCD(a[2], b[2])) * b[2]
    IN  Q(a[1] * (l \div a[2]) + b[1] * (l \div b[2]), l)

QNeg(a) == <<-a[1], a[2]>>

QSub(a, b) == QAdd(a, QNeg(b))

QMul(a, b) ==
    LET g1 == GCD(Abs(a[1]), b[2])
        g2 == GCD(Abs(b[1]), a[2])
    IN  Q((a[1] \div g1) * (b[1] \div g2), (a[2] \div g2) * (b[2] \div g1))

QLe(a, b) == QSub(a, b)[1] <= 0

QLt(a, b) == QSub(a, b)[1] < 0

\* ------------------------------------------------------------ program text
Copies == {"main", "part"}

\* CONFIG.camera.initialZ
initialZ == Q(22, 10)

\* the breakpoint test of each copy
IsMobileAt(cp, w) == IF cp = "main" THEN w < 768 ELSE w <= 768

\* targetZ / targetY of each copy
TargetZ(cp, mobile) ==
    IF cp = "main"
    THEN (IF mobile THEN Q(12, 1) ELSE Q(15, 2))
    ELSE (IF mobile THEN Q(14, 1) ELSE Q(15, 2))

TargetY(mobile) == IF mobile THEN Q(-1, 1) ELSE Q0

\* gsap eases used by the program: "none" where stated, gsap's default
\* "power1.out" where the tween names none, "power3.out" for the intro
Ease(name, r) ==
    LET u == QSub(Q1, r)
    IN  CASE name = "none" -> r
          [] name = "power1.out" -> QSub(Q1, QMul(u, u))
          [] name = "power3.out" -> QSub(Q1, QMul(QMul(u, u), QMul(u, u)))

NoVars == << >>

To(tg, vs, d, e, pos) ==
    [target |-> tg, vars |-> vs, from |-> NoVars, fromTo |-> FALSE,
     dur |-> d, ease |-> e, at |-> pos]

FromTo(tg, fs, vs, d, e, pos) ==
    [target |-> tg, vars |-> vs, from |-> fs, fromTo |-> TRUE,
     dur |-> d, ease |-> e, at |-> pos]

\* a camera tween that moves y as well as z in either copy
CameraVars_mut(cp, mobile) ==
    [z |-> TargetZ(cp, mobile), y |-> TargetY(mobile)]

\* the camera tween of segment 1: main.js tweens z, the variant z and y
CameraVars(cp, mobile) ==
    IF cp = "main"
    THEN [z |-> TargetZ(cp, mobile)]
    ELSE [z |-> TargetZ(cp, mobile), y |-> TargetY(mobile)]

\* a reveal whose overlay fades from a visible from-value
Reveal_mut(cp, mobile) ==
    << To(".glass-panel", [opacity |-> Q0], Q(1, 2), "power1.out", Q0),
       To("camera.position", [z |-> TargetZ(cp, mobile)], Q(2, 1), "none",
          Q0),
       FromTo("#step-reveal .info-block", [opacity |-> Q(1, 5)],
              [opacity |-> Q1], Q1, "power1.out", Q(1, 2)) >>

\* The six segments of the timeline, in source order.  Every tween is
\* placed with an explicit position.
\* 1. reveal (front), t = 0 to 2
Reveal(cp, mobile) ==
    << To(".glass-panel", [opacity |-> Q0], Q(1, 2), "power1.out", Q0),
       To("camera.position", CameraVars(cp, mobile), Q(2, 1), "none", Q0),
       To("#step-reveal .info-block", [opacity |-> Q1], Q1, "power1.out",
          Q(1, 2)) >>

\* 2. front -> right, t = 2 to 4
FrontToRight ==
    << To("#step-reveal .info-block", [opacity |-> Q0], Q(1, 2),
          "power1.out", Q(2, 1)),
       To("box.rotation", [y |-> Q(-1, 2)], Q(2, 1), "none", Q(2, 1)),
       FromTo("#step-right .info-block", [opacity |-> Q0, x |-> Q(50, 1)],
              [opacity |-> Q1, x |-> Q0], Q1, "power1.out", Q(5, 2)) >>

\* a segment 3 whose overlay fades in from the segment's start
RightToBack_mut ==
    << To("#step-right .info-block", [opacity |-> Q0, x |-> Q(-50, 1)],
          Q(1, 2), "power1.out", Q(4, 1)),
       To("box.rotation", [y |-> Q(-1, 1)], Q(2, 1), "none", Q(4, 1)),
       FromTo("#step-back .info-block", [opacity |-> Q0, x |-> Q(50, 1)],
              [opacity |-> Q1, x |-> Q0], Q1, "power1.out", Q(4, 1)) >>

\* 3. right -> back, t = 4 to 6
RightToBack ==
    << To("#step-right .info-block", [opacity |-> Q0, x |-> Q(-50, 1)],
          Q(1, 2), "power1.out", Q(4, 1)),
       To("box.rotation", [y |-> Q(-1, 1)], Q(2, 1), "none", Q(4, 1)),
       FromTo("#step-back .info-block", [opacity |-> Q0, x |-> Q(50, 1)],
              [opacity |-> Q1, x |-> Q0], Q1, "power1.out", Q(9, 2)) >>

\* 4. back -> left, t = 6 to 8
BackToLeft ==
    << To("#step-back .info-block", [opacity |-> Q0, x |-> Q(-50, 1)],
          Q(1, 2), "power1.out", Q(6, 1)),
       To("box.rotation", [y |-> Q(-3, 2)], Q(2, 1), "none", Q(6, 1)),
       FromTo("#step-left .info-block", [opacity |-> Q0, x |-> Q(50, 1)],
              [opacity |-> Q1, x |-> Q0], Q1, "power1.out", Q(13, 2)) >>

\* 5. left -> bottom, t = 8 to 10
LeftToBottom ==
    << To("#step-left .info-block", [opacity |-> Q0, x |-> Q(-50, 1)],
          Q(1, 2), "power1.out", Q(8, 1)),
       To("box.rotation", [y |-> Q(-2, 1), x |-> Q(-1, 2)], Q(2, 1), "none",
          Q(8, 1)),
       FromTo("#step-bottom .info-block", [opacity |-> Q0, y |-> Q(50, 1)],
              [opacity |-> Q1, y |-> Q0], Q1, "power1.out", Q(17, 2)) >>

\* a segment 6 that only undoes the tilt of segment 5
BottomToTop_mut ==
    << To("#step-bottom .info-block", [opacity |-> Q0, y |-> Q(-50, 1)],
          Q(1, 2), "power1.out", Q(10, 1)),
       To("box.rotation", [x |-> Q0], Q(2, 1), "none", Q(10, 1)),
       FromTo("#step-top .info-block", [opacity |-> Q0, y |-> Q(50, 1)],
              [opacity |-> Q1, y |-> Q0], Q1, "power1.out", Q(21, 2)) >>

\* 6. bottom -> top, t = 10 to 12
BottomToTop ==
    << To("#step-bottom .info-block", [opacity |-> Q0, y |-> Q(-50, 1)],
          Q(1, 2), "power1.out", Q(10, 1)),
       To("box.rotation", [x |-> Q(1, 2)], Q(2, 1), "none", Q(10, 1)),
       FromTo("#step-top .info-block", [opacity |-> Q0, y |-> Q(50, 1)],
              [opacity |-> Q1, y |-> Q0], Q1, "power1.out", Q(21, 2)) >>

Placed(cp, mobile) ==
    Reveal(cp, mobile) \o FrontToRight \o RightToBack \o BackToLeft
        \o LeftToBottom \o BottomToTop

\* a time of the program (a rational) in ticks of 1 / (2 * res)
Ticks(q, res) == (q[1] * 2 * res) \div q[2]

\* a timeline's duration: the latest end of its children
SeqEnd(s) ==
    LET ends == {QAdd(s[i].at, s[i].dur) : i \in 1..Len(s)}
    IN  CHOOSE m \in ends : \A e \in ends : QLe(e, m)

\* tl.to({}, { duration: 1 }) has no position: it is appended at the end
Tweens(cp, mobile) ==
    LET s == Placed(cp, mobile)
    IN  Append(s, To("{}", NoVars, Q1, "power1.out", SeqEnd(s)))

\* the timelines the program can build, with their times in ticks
\* a tween with its times in ticks of 1 / (2 * res) and the eased ratio
\* of each tick of its duration
Timed(T, res) ==
    LET d == Ticks(T.dur, res)
    IN  [tween |-> T, at |-> Ticks(T.at, res), dur |-> d,
         ratio |-> [l \in 0..d |-> Ease(T.ease, Q(l, d))]]

TimedSeq(s) == [i \in 1..Len(s) |-> Timed(s[i], Res)]

Timelines ==
    [cp \in Copies |-> [m \in BOOLEAN |-> TimedSeq(Tweens(cp, m))]]

NTweens == Len(Timelines["main"][FALSE])

\* timeline duration in playhead samples
EndStep == Ticks(SeqEnd(Tweens("main", FALSE)), Res) \div 2

\* ------------------------------------------------------------ the box
\* the material array in another slot order
materials_mut == <<"front", "back", "top", "bottom", "right", "left">>

\* const materials = [ ... ]: the texture of each material slot
materials == <<"right", "left", "top", "bottom", "front", "back">>

\* BoxGeometry's material slots face +x, -x, +y, -y, +z, -z
FaceNormals ==
    << <<1, 0, 0>>, <<-1, 0, 0>>, <<0, 1, 0>>, <<0, -1, 0>>,
       <<0, 0, 1>>, <<0, 0, -1>> >>

\* cosine and sine of k quarter turns
Cos4(k) == CASE k % 4 = 0 -> 1 [] k % 4 = 2 -> -1 [] OTHER -> 0

Sin4(k) == CASE k % 4 = 1 -> 1 [] k % 4 = 3 -> -1 [] OTHER -> 0

\* rotation of v by k quarter turns about the y axis, about the x axis
RotY(v, k) ==
    <<v[1] * Cos4(k) + v[3] * Sin4(k), v[2],
      v[3] * Cos4(k) - v[1] * Sin4(k)>>

RotX(v, k) ==
    <<v[1], v[2] * Cos4(k) - v[3] * Sin4(k),
      v[2] * Sin4(k) + v[3] * Cos4(k)>>

\* The material turned toward a camera on the +z axis.  box.rotation is an
\* Euler angle of order XYZ: the y turn is applied first, then the x turn.
\* Between quarter turns no face is square to the camera.
FacingCamera(rot) ==
    IF 2 % rot.x[2] # 0 \/ 2 % rot.y[2] # 0 THEN "none"
    ELSE LET kx == (2 * rot.x[1]) \div rot.x[2]
             ky == (2 * rot.y[1]) \div rot.y[2]
             i == CHOOSE j \in 1..6 :
                    RotX(RotY(FaceNormals[j], ky), kx) = <<0, 0, 1>>
         IN  materials[i]

\* ------------------------------------------------------------ tween engine
\* What gsap and ScrollTrigger do with the tweens above: a tween records its
\* start values when it first renders, writes only when its own local time
\* changes, and a timeline renders its children in start order going
\* forward and in reverse order going backward.

InfoBlocks ==
    {"#step-reveal .info-block", "#step-right .info-block",
     "#step-back .info-block", "#step-left .info-block",
     "#step-bottom .info-block", "#step-top .info-block"}

Merge(rec, vals) ==
    [q \in DOMAIN rec |-> IF q \in DOMAIN vals THEN vals[q] ELSE rec[q]]

\* W is the part of the page tweens write: [camera, box, style]
GetProp(W, tg, p) ==
    CASE tg = "camera.position" -> W.camera.position[p]
      [] tg = "box.rotation" -> W.box.rotation[p]
      [] OTHER -> W.style[tg][p]

SetProps(W, tg, vals) ==
    CASE tg = "camera.position" ->
            [W EXCEPT !.camera.position = Merge(@, vals)]
      [] tg = "box.rotation" -> [W EXCEPT !.box.rotation = Merge(@, vals)]
      [] tg = "{}" -> W
      [] OTHER -> [W EXCEPT !.style[tg] = Merge(@, vals)]

Capture(W, T) == [p \in DOMAIN T.vars |-> GetProp(W, T.target, p)]

\* start + (end - start) * ratio
Lerp(a, b, r) ==
    IF r = Q0 \/ a = b THEN a
    ELSE IF r = Q1 THEN b
    ELSE QAdd(a, QMul(QSub(b, a), r))

\* the values a tween writes at eased ratio r
TweenValue(T, start, r) ==
    [p \in DOMAIN T.vars |-> Lerp(start[p], T.vars[p], r)]

ClampTicks(n, hi) == IF n < 0 THEN 0 ELSE IF n > hi THEN hi ELSE n

\* a child writes when its own time changes or it sits exactly on its start
Due(C, st, time) ==
    \/ ClampTicks(time - C.at, C.dur) # st.tTime
    \/ time = C.at

\* one child render at timeline time `time`: the first render records the
\* start values
RenderTween(C, st, W, time) ==
    LET local == ClampTicks(time - C.at, C.dur)
        start == IF st.inited THEN st.start ELSE Capture(W, C.tween)
    IN  [st |-> [st EXCEPT !.inited = TRUE, !.tTime = local,
                           !.start = start],
         W |-> SetProps(W, C.tween.target,
                        TweenValue(C.tween, start, C.ratio[local]))]

\* S is [tw, W]: the tween records and the page
RenderChild(C, S, i, time) ==
    LET r == RenderTween(C, S.tw[i], S.W, time)
    IN  [tw |-> [S.tw EXCEPT ![i] = r.st], W |-> r.W]

\* a child the playhead has reached, going forward
ForwardStep(TL, S, time, i) ==
    IF TL[i].at <= time /\ Due(TL[i], S.tw[i], time)
    THEN RenderChild(TL[i], S, i, time)
    ELSE S

\* a child whose end the playhead has not passed, going backward
BackwardStep(TL, S, time, i) ==
    IF time <= TL[i].at + TL[i].dur /\ Due(TL[i], S.tw[i], time)
    THEN RenderChild(TL[i], S, i, time)
    ELSE S

\* children lo..hi in start order.  The loop over the children is split in
\* halves, first lo..mid, then mid+1..hi on the result L of the first half;
\* binding L evaluates the first half before the second begins.
RECURSIVE RenderForward(_, _, _, _, _)
RenderForward(TL, S, time, lo, hi) ==
    IF lo = hi THEN ForwardStep(TL, S, time, lo)
    ELSE LET mid == (lo + hi) \div 2
         IN  CHOOSE R \in {RenderForward(TL, L, time, mid + 1, hi) :
                            L \in {RenderForward(TL, S, time, lo, mid)}} : TRUE

\* children hi..lo in reverse order: first hi..mid+1, then mid..lo on the
\* result U of the upper half
RECURSIVE RenderBackward(_, _, _, _, _)
RenderBackward(TL, S, time, lo, hi) ==
    IF lo = hi THEN BackwardStep(TL, S, time, lo)
    ELSE LET mid == (lo + hi) \div 2
         IN  CHOOSE R \in {RenderBackward(TL, U, time, lo, mid) :
                            U \in {RenderBackward(TL, S, time, mid + 1, hi)}} : TRUE

\* timeline.render: nothing happens unless the playhead moves
RenderTimeline(TL, tws, W, prev, time) ==
    IF time = prev THEN [tw |-> tws, W |-> W]
    ELSE IF prev < time
         THEN RenderForward(TL, [tw |-> tws, W |-> W], time, 1, Len(TL))
         ELSE RenderBackward(TL, [tw |-> tws, W |-> W], time, 1, Len(TL))

\* building the timeline: to() tweens wait for their first render,
\* fromTo() tweens render their from-values at once (immediateRender)
BuildChild(T, S) ==
    [tw |-> Append(S.tw,
                   [inited |-> T.fromTo, tTime |-> 0,
                    start |-> IF T.fromTo THEN T.from
                              ELSE [p \in DOMAIN T.vars |-> Q0],
                    orig |-> IF T.fromTo THEN Capture(S.W, T)
                             ELSE [p \in DOMAIN T.vars |-> Q0]]),
     W |-> IF T.fromTo THEN SetProps(S.W, T.target, T.from) ELSE S.W]

\* children lo..hi are added in source order
RECURSIVE BuildFrom(_, _, _, _)
BuildFrom(TL, S, lo, hi) ==
    IF lo = hi THEN BuildChild(TL[lo].tween, S)
    ELSE LET mid == (lo + hi) \div 2
         IN  CHOOSE R \in {BuildFrom(TL, L, mid + 1, hi) :
                            L \in {BuildFrom(TL, S, lo, mid)}} : TRUE

BuildTimeline(TL, W) == BuildFrom(TL, [tw |-> << >>, W |-> W], 1, Len(TL))

\* context revert (matchMedia): every tween that has rendered is put back
\* to where it started, last tween first; a fromTo() gives back the values
\* it replaced when it was built
RevertChild(T, st, W) ==
    IF st.inited
    THEN SetProps(W, T.target, IF T.fromTo THEN st.orig ELSE st.start)
    ELSE W

\* children hi..lo are reverted last first
RECURSIVE RevertFrom(_, _, _, _, _)
RevertFrom(TL, tws, W, lo, hi) ==
    IF lo = hi THEN RevertChild(TL[lo].tween, tws[lo], W)
    ELSE LET mid == (lo + hi) \div 2
         IN  CHOOSE R \in {RevertFrom(TL, tws, U, lo, mid) :
                            U \in {RevertFrom(TL, tws, W, mid + 1, hi)}} : TRUE

RevertTimeline(TL, tws, W) == RevertFrom(TL, tws, W, 1, Len(TL))

\* ------------------------------------------------------------ state
VARIABLES
    copy,       \* which copy of the program runs: "main" (main.js) or "part"
    window,     \* innerWidth, innerHeight, devicePixelRatio
    isMobile,   \* the breakpoint variant the live timeline was built for
    camera,     \* position, aspect and the last lookAt
    box,        \* box.rotation
    style,      \* opacity and offsets of the overlay elements
    tl,         \* the scroll timeline: playhead sample and tween records
    scrollY,    \* page scroll, in playhead samples from the trigger start
    intro,      \* the intro fade-in tween and gsap's clock for it
    cursor,     \* the pointer record read by animate
    renderer,   \* size and pixel ratio
    composer,   \* size and the pixel ratio taken at construction
    scene,      \* frame count, boxGroup.position.y, particlesMesh.rotation.y
    events      \* events the browser has queued: resize, media-query change

vars == <<copy, window, isMobile, camera, box, style, tl, scrollY, intro,
          cursor, renderer, composer, scene, events>>

Widths == {767, 768, 769}
Heights == {600, 800}
PixelRatios == {1, 3}

\* the windows the program is started in: width, height, devicePixelRatio
StartWindows == {<<w, 600, d>> : w \in Widths, d \in PixelRatios}

\* pointer positions delivered by mousemove: clientX, clientY
Pointers == {<<0, 0>>, <<192, 450>>}

\* page scroll positions the user stops at, in playhead samples
ScrollStops == {0, 2 * Res + 1, EndStep, EndStep + Overscroll}

\* the style sheet (not part of the scripts): the panel and every overlay
\* start hidden; the panel's vertical offset is measured in units of its
\* style-sheet value
StyleSheet ==
    [e \in InfoBlocks \cup {".glass-panel"} |->
        CASE e = ".glass-panel" -> [opacity |-> Q0, y |-> Q1]
          [] e = "#step-reveal .info-block" -> [opacity |-> Q0]
          [] e \in {"#step-bottom .info-block", "#step-top .info-block"} ->
                [opacity |-> Q0, y |-> Q0]
          [] OTHER -> [opacity |-> Q0, x |-> Q0]]

World == [camera |-> camera, box |-> box, style |-> style]

\* gsap.to('.glass-panel', {opacity: 1, y: 0, duration: 1.5, delay: 0.5})
IntroTween ==
    To(".glass-panel", [opacity |-> Q1, y |-> Q0], Q(3, 2), "power3.out",
       Q(1, 2))

\* gsap clock ticks until the intro tween ends
IntroTicks ==
    Ticks(QAdd(IntroTween.at, IntroTween.dur), TicksPerSecond) \div 2

\* a pixel ratio taken as it is
ClampedRatio_mut(dpr) == dpr

\* Math.min(window.devicePixelRatio, 2)
ClampedRatio(dpr) == IF dpr < 2 THEN dpr ELSE 2

\* scroll progress that is not clipped at the trigger's end
Progress_mut(y) == IF y < 0 THEN 0 ELSE y

\* ScrollTrigger: scroll progress is clipped to the trigger's range
Progress(y) == IF y > EndStep THEN EndStep ELSE IF y < 0 THEN 0 ELSE y

\* a camera that snaps to its target
SmoothStep_mut(cur, tgt) == tgt

\* position += (target - position) * 0.05
SmoothStep(cur, tgt) == QAdd(cur, QMul(QSub(tgt, cur), Q(5, 100)))

\* the camera after one animate(): parallaxStrength 0.5
Animated(cp, cam, cur) ==
    LET targetX == QMul(cur.x, Q(1, 2))
        targetY == QMul(QNeg(cur.y), Q(1, 2))
    IN  IF cp = "main"
        THEN LET pos == [cam.position EXCEPT
                            !.x = SmoothStep(@, targetX),
                            !.y = SmoothStep(@, targetY)]
             IN  [cam EXCEPT !.position = pos, !.aimAt = <<Q0, Q0, Q0>>]
        ELSE [cam EXCEPT !.aimAt = <<targetX, targetY, Q0>>]

\* the timeline and the page after the scrub moves the playhead to sample n
Scrubbed(cp, mobile, t, W, n) ==
    LET r == RenderTimeline(Timelines[cp][mobile], t.tw, W,
                            2 * t.time, 2 * n)
    IN  [tl |-> [time |-> n, tw |-> r.tw], W |-> r.W]

\* the resize listener: what it leaves in camera.aspect, renderer, composer
Resized(win, comp) ==
    [aspect |-> Q(win.innerWidth, win.innerHeight),
     renderer |-> [width |-> win.innerWidth, height |-> win.innerHeight,
                   pixelRatio |-> ClampedRatio(win.devicePixelRatio),
                   sampled |-> win.devicePixelRatio],
     composer |-> [comp EXCEPT !.width = win.innerWidth,
                               !.height = win.innerHeight]]

\* gsap.matchMedia when the matching query changes: the old context is
\* reverted and the function runs again for the query that matches now
MediaChanged(cp, old, new, t, W) ==
    LET b == BuildTimeline(Timelines[cp][new],
                           RevertTimeline(Timelines[cp][old], t.tw, W))
    IN  [tl |-> [time |-> 0, tw |-> b.tw], W |-> b.W]

Setup(cp, w, h, dpr) ==
    LET mobile == IsMobileAt(cp, w)
        cam0 == [position |-> [x |-> Q0, y |-> Q0, z |-> initialZ],
                 aspect |-> Q(w, h),
                 aimAt |-> <<Q0, Q0, Q0>>]
        W0 == [camera |-> cam0,
               box |-> [rotation |-> [x |-> Q0, y |-> Q0]],
               style |-> StyleSheet]
        b == BuildTimeline(Timelines[cp][mobile], W0)
        cur0 == [x |-> Q0, y |-> Q0]
    IN  /\ copy = cp
        /\ window = [innerWidth |-> w, innerHeight |-> h,
                     devicePixelRatio |-> dpr]
        /\ isMobile = mobile
        /\ cursor = cur0
        \* animate() is called once at the end of the script
        /\ camera = Animated(cp, b.W.camera, cur0)
        /\ box = b.W.box
        /\ style = b.W.style
        /\ tl = [time |-> 0, tw |-> b.tw]
        /\ scrollY = 0
        /\ intro = [clock |-> 0,
                    st |-> [inited |-> FALSE, tTime |-> 0,
                            start |-> [opacity |-> Q0, y |-> Q0]]]
        /\ renderer = [width |-> w, height |-> h,
                       pixelRatio |-> ClampedRatio(dpr), sampled |-> dpr]
        /\ composer = [width |-> w, height |-> h,
                       pixelRatio |-> ClampedRatio(dpr)]
        /\ scene = [frames |-> 0, boxGroupArg |-> Q0, particlesY |-> Q0]
        /\ events = [resize |-> FALSE, media |-> FALSE]

Init ==
    \E cp \in Copies, sw \in StartWindows : Setup(cp, sw[1], sw[2], sw[3])

\* ------------------------------------------------------------ actions
\* the user scrolls the page to y; ScrollTrigger only retargets its scrub
Scroll(y) ==
    /\ y # scrollY
    /\ scrollY' = y
    /\ UNCHANGED <<copy, window, isMobile, camera, box, style, tl, intro,
                   cursor, renderer, composer, scene, events>>

\* samples the scrub may show next on its way to the scroll position
ScrubChoices(from, to) ==
    IF from < to THEN {from + 1, to} ELSE {from - 1, to}

\* one gsap tick of the scrub (scrub: 1): the playhead moves toward the
\* scroll position and the timeline renders there
ScrubTick ==
    /\ tl.time # Progress(scrollY)
    /\ \E n \in ScrubChoices(tl.time, Progress(scrollY)) :
       LET r == Scrubbed(copy, isMobile, tl, World, n)
       IN  /\ tl' = r.tl
           /\ camera' = r.W.camera
           /\ box' = r.W.box
           /\ style' = r.W.style
    /\ UNCHANGED <<copy, window, isMobile, scrollY, intro, cursor, renderer,
                   composer, scene, events>>

\* one gsap tick of the intro tween: nothing is written during the delay
IntroTick ==
    /\ intro.clock < IntroTicks
    /\ LET C == Timed(IntroTween, TicksPerSecond)
           now == 2 * (intro.clock + 1)
           r == RenderTween(C, intro.st, World, now)
       IN  IF C.at <= now /\ Due(C, intro.st, now)
           THEN /\ intro' = [clock |-> intro.clock + 1, st |-> r.st]
                /\ style' = r.W.style
           ELSE /\ intro' = [intro EXCEPT !.clock = @ + 1]
                /\ style' = style
    /\ UNCHANGED <<copy, window, isMobile, camera, box, tl, scrollY, cursor,
                   renderer, composer, scene, events>>

\* The browser resizes the viewport: window.innerWidth and innerHeight
\* change at once, the resize event is queued, and for the matchMedia copy a
\* media-query change is queued while the width is on the other side of
\* the breakpoint than the live timeline.  main.js computed isMobile once
\* and listens to no media query.
WindowResize(w, h) ==
    /\ <<w, h>> # <<window.innerWidth, window.innerHeight>>
    /\ window' = [window EXCEPT !.innerWidth = w, !.innerHeight = h]
    /\ events' = [resize |-> TRUE,
                  media |-> copy = "part" /\ IsMobileAt(copy, w) # isMobile]
    /\ UNCHANGED <<copy, isMobile, camera, box, style, tl, scrollY, intro,
                   cursor, renderer, composer, scene>>

\* window.addEventListener('resize', ...)
OnResize ==
    /\ events.resize
    /\ LET r == Resized(window, composer)
       IN  /\ camera' = [camera EXCEPT !.aspect = r.aspect]
           /\ renderer' = r.renderer
           /\ composer' = r.composer
    /\ events' = [events EXCEPT !.resize = FALSE]
    /\ UNCHANGED <<copy, window, isMobile, box, style, tl, scrollY, intro,
                   cursor, scene>>

\* gsap.matchMedia's listener: the context of the old variant is reverted
\* and the mm.add callback builds the timeline of the variant that matches
OnMediaChange ==
    /\ events.media
    /\ LET mobile == IsMobileAt(copy, window.innerWidth)
           m == MediaChanged(copy, isMobile, mobile, tl, World)
       IN  /\ isMobile' = mobile
           /\ tl' = m.tl
           /\ camera' = m.W.camera
           /\ box' = m.W.box
           /\ style' = m.W.style
    /\ events' = [events EXCEPT !.media = FALSE]
    /\ UNCHANGED <<copy, window, scrollY, intro, cursor, renderer, composer,
                   scene>>

\* the window moves to a display of another pixel ratio: no event is sent
PixelRatioChange(d) ==
    /\ d # window.devicePixelRatio
    /\ window' = [window EXCEPT !.devicePixelRatio = d]
    /\ UNCHANGED <<copy, isMobile, camera, box, style, tl, scrollY, intro,
                   cursor, renderer, composer, scene, events>>

\* window.addEventListener('mousemove', ...)
MouseMove(clientX, clientY) ==
    /\ cursor' = [x |-> QSub(Q(clientX, window.innerWidth), Q(1, 2)),
                  y |-> QSub(Q(clientY, window.innerHeight), Q(1, 2))]
    /\ cursor' # cursor
    /\ UNCHANGED <<copy, window, isMobile, camera, box, style, tl, scrollY,
                   intro, renderer, composer, scene, events>>

\* animate(): one frame callback; elapsed time advances one tick per frame
Animate ==
    /\ scene.frames < MaxFrames
    /\ LET elapsedTime == Q(scene.frames + 1, TicksPerSecond)
       IN  scene' = [frames |-> scene.frames + 1,
                     \* boxGroup.position.y = 0.1 * sin(boxGroupArg)
                     boxGroupArg |-> QMul(elapsedTime, Q(1, 2)),
                     particlesY |-> QMul(QNeg(elapsedTime), Q(5, 100))]
    /\ camera' = Animated(copy, camera, cursor)
    /\ UNCHANGED <<copy, window, isMobile, box, style, tl, scrollY, intro,
                   cursor, renderer, composer, events>>

Next ==
    \/ \E y \in ScrollStops : Scroll(y)
    \/ ScrubTick
    \/ IntroTick
    \/ \E w \in Widths, h \in Heights : WindowResize(w, h)
    \/ OnResize
    \/ OnMediaChange
    \/ \E d \in PixelRatios : PixelRatioChange(d)
    \/ \E p \in Pointers : MouseMove(p[1], p[2])
    \/ Animate

Spec == Init /\ [][Next]_vars

\* The tour: scrolling, the scrub, resizes and breakpoint changes.
NextTour ==
    \/ \E y \in ScrollStops : Scroll(y)
    \/ ScrubTick
    \/ \E w \in Widths : WindowResize(w, window.innerHeight)
    \/ OnResize
    \/ OnMediaChange

SpecTour ==
    (\E cp \in Copies, w \in Widths : Setup(cp, w, 600, 1))
        /\ [][NextTour]_vars

\* The viewport: resizes, their two listeners and pixel-ratio changes.
NextResize ==
    \/ \E w \in Widths, h \in Heights : WindowResize(w, h)
    \/ OnResize
    \/ OnMediaChange
    \/ \E d \in PixelRatios : PixelRatioChange(d)

SpecResize == Init /\ [][NextResize]_vars

\* The camera's two writers, the scrub and the frame callback, over the
\* whole tour and back, with pointer moves.
NextParallax ==
    \/ \E y \in {0, EndStep} : Scroll(y)
    \/ ScrubTick
    \/ \E p \in Pointers : MouseMove(p[1], p[2])
    \/ Animate

SpecParallax ==
    (\E cp \in Copies, w \in Widths : Setup(cp, w, 600, 1))
        /\ [][NextParallax]_vars

\* The panel's two writers: the scrub and the intro tween.
NextIntro ==
    \/ \E y \in {0, 1, 2 * Res + 1} : Scroll(y)
    \/ ScrubTick
    \/ IntroTick

SpecIntro ==
    (\E cp \in Copies, w \in Widths : Setup(cp, w, 600, 1))
        /\ [][NextIntro]_vars

\* ------------------------------------------------------------ properties
Opacity(e) == style[e].opacity

Shown == {e \in InfoBlocks : QLt(Q0, Opacity(e))}

\* the scrub has caught up with the scroll position
Settled == tl.time = Progress(scrollY)

\* the live timeline
Live == Timelines[copy][isMobile]

\* C1: in both copies, whenever the scrub has settled at scroll fraction 0,
\* the box is unrotated, the camera is at distance 2.2 and every overlay is
\* hidden, whatever scrubs, frames and pointer moves came before.
C1_StartRestored ==
    (scrollY = 0 /\ tl.time = 0) =>
        /\ box.rotation = [x |-> Q0, y |-> Q0]
        /\ camera.position.z = Q(22, 10)
        /\ \A e \in InfoBlocks : Opacity(e) = Q0

\* back at the top after the whole tour, with a frame drawn under a moved
\* pointer
C1_BackAtStart ==
    /\ scrollY = 0
    /\ tl.time = 0
    /\ tl.tw[NTweens].inited
    /\ scene.frames > 0
    /\ cursor.x # Q0

\* the faces of the tour, in the order the segments end
TourOrder == <<"front", "right", "back", "left", "bottom", "top">>

\* C2: at timeline positions 2, 4, 6, 8, 10 and 12 the face turned toward the
\* camera is front, right, back, left, bottom, top; the six are distinct.
C2_FaceOrder ==
    /\ \A k \in 1..6 :
          tl.time = 2 * k * Res => FacingCamera(box.rotation) = TourOrder[k]
    /\ Cardinality({TourOrder[k] : k \in 1..6}) = 6

\* the bottom face reached from above, on the way back from the end
C2_BottomShown ==
    /\ tl.time = 10 * Res
    /\ scrollY < tl.time
    /\ tl.tw[NTweens].inited
    /\ FacingCamera(box.rotation) = "bottom"

\* the rotation tweens of the live timeline, by position in it
RotationSteps ==
    {i \in 1..NTweens : Live[i].tween.target = "box.rotation"}

\* an angle (a rational multiple of pi) in degrees
Degrees(a) == (a[1] * 180) \div a[2]

\* degrees a rotation tween turns the box about an axis: from the value it
\* found when it started to its target
Turn(i, axis) ==
    IF axis \in DOMAIN Live[i].tween.vars
    THEN Abs(Degrees(Live[i].tween.vars[axis]) - Degrees(tl.tw[i].start[axis]))
    ELSE 0

RECURSIVE TotalTurn(_, _)
TotalTurn(i, axis) ==
    IF i = 0 THEN 0
    ELSE TotalTurn(i - 1, axis)
            + (IF i \in RotationSteps THEN Turn(i, axis) ELSE 0)

AllTurnsStarted == \A i \in RotationSteps : tl.tw[i].inited

\* C3 (as the code has it): over the whole timeline the box turns 360
\* degrees about y in four steps of 90, and 270 degrees about x: 90 down in
\* segment 5, then 180 up in segment 6, ending 90 degrees from where it began.
C3_TurnTotals ==
    AllTurnsStarted =>
        /\ TotalTurn(NTweens, "y") = 360
        /\ TotalTurn(NTweens, "x") = 270
        /\ \A i \in RotationSteps : Turn(i, "y") \in {0, 90}
        /\ {Turn(i, "x") : i \in RotationSteps} = {0, 90, 180}
        /\ tl.time = EndStep => Degrees(box.rotation.x) = 90

\* every rotation tween has started and the tour is at its end
C3_TourDone == AllTurnsStarted /\ tl.time = EndStep /\ scrollY = EndStep

\* C3 as stated: 360 degrees about y plus one 90 degree flip about x, every
\* transition 90 degrees
C3_Original ==
    AllTurnsStarted =>
        /\ TotalTurn(NTweens, "y") = 360
        /\ TotalTurn(NTweens, "x") = 90
        /\ \A i \in RotationSteps : Turn(i, "x") + Turn(i, "y") = 90

\* every queued resize and media-query event has been handled
EventsHandled == ~events.resize /\ ~events.media

\* C4 as stated: in both copies, once the width changes have been handled,
\* the active variant is the mobile one exactly when the width is at most
\* 768, the desktop one (target distance 7.5) exactly when it is at least
\* 769, and the two distances differ.
C4_Original ==
    EventsHandled =>
        /\ isMobile <=> window.innerWidth <= 768
        /\ ~isMobile <=> window.innerWidth >= 769
        /\ TargetZ(copy, FALSE) = Q(75, 10)
        /\ TargetZ(copy, TRUE) # TargetZ(copy, FALSE)

\* a narrow window with the desktop timeline still live and no event left
C4_StaleVariant ==
    /\ window.innerWidth = 767
    /\ ~isMobile
    /\ renderer.width = 767
    /\ EventsHandled


\* the scroll fraction is 1 and the scrub has arrived
AtEnd == scrollY >= EndStep /\ tl.time = EndStep

Terminal ==
    /\ box.rotation = [x |-> Q(1, 2), y |-> Q(-2, 1)]
    /\ camera.position.z = TargetZ(copy, isMobile)
    /\ Opacity("#step-top .info-block") = Q1
    /\ \A e \in InfoBlocks \ {"#step-top .info-block"} : Opacity(e) = Q0

\* C5: at scroll fraction 1 the state is the terminal one (x = +90 degrees,
\* y = -360 degrees, the camera at the active target distance, only the top
\* overlay shown), the playhead stands at the end of the hold tween, and no
\* step taken there, a breakpoint rebuild apart, moves the playhead or
\* anything the timeline controls.
C5_TerminalHeld ==
    /\ [](AtEnd =>
            /\ Terminal
            /\ 2 * tl.time = Live[NTweens].at + Live[NTweens].dur)
    /\ [][(AtEnd /\ isMobile' = isMobile) =>
            /\ tl' = tl
            /\ box' = box
            /\ style' = style
            /\ camera'.position.z = camera.position.z]_vars

\* the page scrolled past the end with the playhead held there
C5_PastEnd == scrollY > EndStep /\ tl.time = EndStep /\ Terminal


\* half the pointer offset, the parallax target of a frame
ParallaxTarget == <<QMul(cursor.x, Q(1, 2)), QMul(QNeg(cursor.y), Q(1, 2))>>

FrameTaken == scene'.frames # scene.frames

\* camera.position.x and .y go a twentieth of the way to the target
Damped ==
    /\ QMul(Q(20, 1), QSub(camera'.position.x, camera.position.x))
          = QSub(ParallaxTarget[1], camera.position.x)
    /\ QMul(Q(20, 1), QSub(camera'.position.y, camera.position.y))
          = QSub(ParallaxTarget[2], camera.position.y)

\* C6 (as the code has it): on every frame main.js moves camera x and y
\* toward (0.5 * cursor.x, -0.5 * cursor.y) by 0.05 of the remaining
\* distance and aims at (0, 0, 0); the matchMedia copy leaves the camera
\* position alone and aims at (0.5 * cursor.x, -0.5 * cursor.y, 0).
C6_FramePerCopy ==
    [][FrameTaken =>
          IF copy = "main"
          THEN Damped /\ camera'.aimAt = <<Q0, Q0, Q0>>
          ELSE /\ camera'.position = camera.position
               /\ camera'.aimAt = <<ParallaxTarget[1], ParallaxTarget[2], Q0>>
      ]_vars

\* a frame of the matchMedia copy drawn under a moved pointer
C6_AimFollowsPointer ==
    /\ copy = "part"
    /\ scene.frames > 0
    /\ camera.aimAt[1] # Q0
    /\ camera.position.x = Q0

\* C6 as stated: in both copies every frame damps x and y toward the target
\* and aims at the fixed point (0, 0, 0)
C6_Original ==
    [][FrameTaken => Damped /\ camera'.aimAt = <<Q0, Q0, Q0>>]_vars

WindowAspect == Q(window.innerWidth, window.innerHeight)

\* C7: once the resize listener has run, camera.aspect is innerWidth /
\* innerHeight and the renderer and the composer have the window's size; in
\* every state the renderer's pixel ratio is min(devicePixelRatio, 2) of
\* the ratio it last sampled, the listener samples the current one, and it
\* never exceeds 2.
C7_ViewportFollowed ==
    /\ [](~events.resize =>
            /\ camera.aspect = WindowAspect
            /\ <<renderer.width, renderer.height>>
                  = <<window.innerWidth, window.innerHeight>>
            /\ <<composer.width, composer.height>>
                  = <<window.innerWidth, window.innerHeight>>)
    /\ [](/\ renderer.pixelRatio
                = (IF renderer.sampled < 2 THEN renderer.sampled ELSE 2)
          /\ renderer.pixelRatio <= 2)
    /\ [][events.resize /\ ~events'.resize =>
             renderer'.sampled = window.devicePixelRatio]_vars

\* resized on a dense display, which was then left for a plain one
C7_ClampedAfterResize ==
    /\ ~events.resize
    /\ renderer.height = 800
    /\ renderer.sampled = 3
    /\ renderer.pixelRatio = 2
    /\ window.devicePixelRatio = 1

\* the camera after the next scrub update to sample n
ScrubbedCamera(before, n) ==
    Scrubbed(copy, isMobile, tl, [World EXCEPT !.camera = before],
             n).W.camera

ScrubThenFrame(n) ==
    Animated(copy, ScrubbedCamera(camera, n), cursor).position

FrameThenScrub(n) ==
    LET moved == Animated(copy, camera, cursor)
    IN  ScrubbedCamera(moved, n).position

ScrubPending == tl.time # Progress(scrollY)

\* both callbacks are due and each would move the camera
BothMoveCamera(n) ==
    /\ Animated(copy, camera, cursor).position # camera.position
    /\ ScrubbedCamera(camera, n).position # camera.position

\* C8 (as the code has it): in each copy the timeline and the frame callback
\* write different components of camera.position (main.js: z against x and
\* y; the matchMedia copy: z and y against none), so one scrub update and
\* one frame leave the same position in either order.
C8_OrderIrrelevant ==
    ScrubPending =>
        \A n \in ScrubChoices(tl.time, Progress(scrollY)) :
            ScrubThenFrame(n) = FrameThenScrub(n)

\* a scrub update and a frame are both due and both would move the camera
C8_BothDue ==
    /\ ScrubPending
    /\ scene.frames < MaxFrames
    /\ \E n \in ScrubChoices(tl.time, Progress(scrollY)) : BothMoveCamera(n)

\* C8 as stated: the two callbacks write the same component, so where both
\* move the camera the position depends on their order
C8_Original ==
    ScrubPending =>
        \A n \in ScrubChoices(tl.time, Progress(scrollY)) :
            BothMoveCamera(n) => ScrubThenFrame(n) # FrameThenScrub(n)

\* C9 as stated: whenever the scrub has settled at a position >= 0.5 the
\* panel's opacity is 0, whatever the intro tween does.
C9_Original ==
    (Settled /\ 2 * tl.time >= Res) => Opacity(".glass-panel") = Q0

\* the panel showing with the playhead settled past 0.5
C9_PanelShown ==
    /\ Settled
    /\ 2 * tl.time >= Res
    /\ QLt(Q0, Opacity(".glass-panel"))
    /\ intro.clock = IntroTicks

\* the overlay tweens of segment s of the live timeline: the fade-out of the
\* previous overlay and the fade-in of its own
FadeOut(s) == Live[3 * s - 2]

FadeIn(s) == Live[3 * s]

\* C10: at every timeline position, however reached, at most one overlay has
\* opacity above 0; each fade-out (0.5 units from 2, 4, 6, 8, 10) ends where
\* the next fade-in (1 unit) begins.
C10_OneOverlay ==
    /\ Cardinality(Shown) <= 1
    /\ \A s \in 2..6 :
          /\ FadeOut(s).at = Ticks(Q(2 * (s - 1), 1), Res)
          /\ FadeOut(s).dur = Ticks(Q(1, 2), Res)
          /\ FadeIn(s).at = FadeOut(s).at + FadeOut(s).dur
          /\ FadeIn(s).dur = Ticks(Q1, Res)
          /\ FadeOut(s).tween.vars.opacity = Q0
          /\ FadeIn(s).tween.vars.opacity = Q1
          /\ FadeOut(s).tween.target # FadeIn(s).tween.target

\* scrubbing back through a fade-out: one overlay, partly faded
C10_MidFade ==
    /\ tl.time = 2 * Res + 1
    /\ scrollY < tl.time
    /\ tl.tw[NTweens].inited
    /\ Shown = {"#step-reveal .info-block"}
    /\ QLt(Opacity("#step-reveal .info-block"), Q1)

====
